---- MODULE Spec2Model ----
(***************************************************************************)
(* DeviceMesh (torch/distributed/_tensor/device_mesh.py).                  *)
(*                                                                         *)
(* Every process of the world runs the same program (SPMD): it constructs  *)
(* a DeviceMesh from the same mesh argument and then calls the collective  *)
(* wrappers.  A tensor is a record [shape, data] with data in row-major    *)
(* order; indices are 0-based as in the source, sequences 1-based.         *)
(***************************************************************************)
EXTENDS Integers, Sequences, FiniteSets, TLC

\* ------------------------------------------------------------------ bounds
\* number of processes of the default world (get_world_size())
WorldSize == 4

Procs == 0 .. (WorldSize - 1)
\* values a mesh entry is drawn from: the ranks of the world and one integer
\* that is no rank of it
MeshVals == (-1) .. (WorldSize - 1)

None == "None"
\* no collective wrapper was called yet
NoOp == [op |-> None]

VARIABLES
    mesh,              \* the mesh argument, converted to an int tensor
    device_type,       \* the device_type argument
    dim_groups_arg,    \* the dim_groups argument of the constructor call
    initialized,       \* is_initialized() on each process
    world_backend,     \* backend name of the default process group
    pc,                \* position of each process in DeviceMesh.__init__
    error,             \* the error a process's construction raised
    backend,           \* self._backend
    coordinate_on_dim, \* self._coordinate_on_dim
    dim_groups,        \* self._dim_groups
    cur_dim,           \* dim of the derivation loop, while in new_group
    cur_line,          \* index into pg_ranks_by_dim, while in new_group
    pg_ranks_by_dim,   \* the lines of the dimension the loop is in
    new_group_calls,   \* the new_group calls each process has issued
    init_calls,        \* number of init_process_group calls of each process
    last_op,           \* the collective wrapper call in progress and what it did
    first_mesh,        \* the DeviceMesh a process constructed before its present one
    instances,         \* DeviceMesh objects of one process, by identity
    global_device_mesh,\* _global_device_mesh
    registry_log       \* the __enter__ and __exit__ calls made so far

vars == <<mesh, device_type, dim_groups_arg, initialized, world_backend, pc,
          error, backend, coordinate_on_dim, dim_groups, cur_dim, cur_line,
          pg_ranks_by_dim, new_group_calls, init_calls, last_op, first_mesh,
          instances, global_device_mesh, registry_log>>

\* the state of the default-mesh registry and of the objects entered in it
regvars == <<instances, global_device_mesh, registry_log>>

\* ------------------------------------------------------- sequence helpers
Range(s) == {s[i] : i \in 1 .. Len(s)}

RECURSIVE Prod(_)
Prod(s) == IF s = <<>> THEN 1 ELSE Head(s) * Prod(Tail(s))

RECURSIVE SumSeq(_)
SumSeq(s) == IF s = <<>> THEN 0 ELSE Head(s) + SumSeq(Tail(s))

SetMin(S) == CHOOSE x \in S : \A y \in S : x <= y

RECURSIVE SortedSeq(_)
SortedSeq(S) == IF S = {} THEN <<>> ELSE <<SetMin(S)>> \o SortedSeq(S \ {SetMin(S)})

\* ---------------------------------------------------------- tensor model
Numel(t) == Len(t.data)
Ndim(t) == Len(t.shape)
\* Tensor.size(dim), dim 0-based
Size(t, dim) == t.shape[dim + 1]

\* stride of axis i (1-based) of a contiguous row-major tensor of this shape
Stride(shape, i) == Prod(SubSeq(shape, i + 1, Len(shape)))
\* multi-index (0-based entries) of the flat row-major offset k (0-based)
Unravel(k, shape) == [i \in 1 .. Len(shape) |-> (k \div Stride(shape, i)) % shape[i]]
\* flat row-major offset of a multi-index
Ravel(idx, shape) == SumSeq([i \in 1 .. Len(shape) |-> idx[i] * Stride(shape, i)])
\* element at a multi-index
At(t, idx) == t.data[Ravel(idx, t.shape) + 1]

\* Tensor.unique(sorted=True)
Unique(t) == SortedSeq(Range(t.data))

\* (t == v).nonzero(): the multi-indices of the entries equal to v, in order
RECURSIVE NonzeroFrom(_, _, _)
NonzeroFrom(t, v, k) ==
    IF k >= Numel(t) THEN <<>>
    ELSE (IF t.data[k + 1] = v THEN <<Unravel(k, t.shape)>> ELSE <<>>)
         \o NonzeroFrom(t, v, k + 1)
NonzeroEq(t, v) == NonzeroFrom(t, v, 0)

\* Tensor.swapdims(a, b), a and b 1-based axis positions: the tensor whose
\* element at index m is the element of t at m with entries a and b exchanged
SwapIdx(m, a, b) == [i \in 1 .. Len(m) |-> IF i = a THEN m[b] ELSE IF i = b THEN m[a] ELSE m[i]]
SwapDims(t, a, b) ==
    LET shape2 == SwapIdx(t.shape, a, b)
    IN  [shape |-> shape2,
         data  |-> [k \in 1 .. Numel(t) |-> At(t, SwapIdx(Unravel(k - 1, shape2), a, b))]]

\* overlapping windows of n entries instead of consecutive rows
Rows_Sliding(t, n) == [i \in 1 .. (Numel(t) - n + 1) |-> SubSeq(t.data, i, i + n - 1)]

\* Tensor.reshape(-1, n) followed by iteration over the rows
Rows(t, n) == [i \in 1 .. (Numel(t) \div n) |-> SubSeq(t.data, (i - 1) * n + 1, i * n)]

\* ------------------------------------------------- communication layer
\* Optional[X] is a sequence of no or one X
NoneOpt == <<>>
Some(x) == <<x>>

Backends == {"gloo", "nccl", "threaded", "mpi"}
DeviceTypes == {"cpu", "cuda", "xpu"}

\* a ProcessGroup handle: id 0 is the default group, id k > 0 the group the
\* k-th new_group call of the program created
ProcessGroup(id, ranks) == [kind |-> "ProcessGroup", id |-> id, ranks |-> ranks]
\* GroupMember.WORLD, what _get_default_group() returns
WORLD == ProcessGroup(0, [i \in 1 .. WorldSize |-> i - 1])
\* new_group(ranks, backend): the handle of the group of exactly these ranks
NewGroup(k, ranks) == ProcessGroup(k, ranks)
\* get_global_rank(group, group_rank)
GetGlobalRank(group, i) == group.ranks[i + 1]
\* get_world_size(group)
GroupSize(group) == Len(group.ranks)
\* get_rank(group): the position of the caller in the group
GroupRank(group, r) == (CHOOSE i \in 1 .. Len(group.ranks) : group.ranks[i] = r) - 1

\* int(os.getenv("WORLD_SIZE", 1)): the launcher exports the size of the world
EnvWorldSize == WorldSize

\* ------------------------------------------------ DeviceMesh.__init__
\* the checks of the bootstrap without the test that the ranks start from 0
BootstrapError_NoMinCheck(m) ==
    IF Numel(m) < EnvWorldSize THEN "world_size_mismatch"
    ELSE IF Len(Unique(m)) # Numel(m) THEN "duplicate"
    ELSE IF 2 * SumSeq(Unique(m)) # EnvWorldSize * (EnvWorldSize - 1) THEN "not_contiguous"
    ELSE None

\* _get_or_create_default_group, the checks made before init_process_group
BootstrapError(m) ==
    IF Numel(m) < EnvWorldSize THEN "world_size_mismatch"
    ELSE IF Len(Unique(m)) # Numel(m) THEN "duplicate"
    ELSE IF Unique(m)[1] # 0 THEN "not_from_0"
    ELSE IF 2 * SumSeq(Unique(m)) # EnvWorldSize * (EnvWorldSize - 1) THEN "not_contiguous"
    ELSE None

\* the backend _get_or_create_default_group initializes the world with
BootstrapBackend(dt) == IF dt = "cpu" THEN "gloo" ELSE "nccl"

\* the check of the default group's backend against device_type
DeviceTypeError(dt, be) ==
    IF dt = "cpu" THEN (IF be \in {"gloo", "threaded"} THEN None ELSE "backend_not_supporting_cpu")
    ELSE IF dt = "cuda" THEN (IF be \in {"gloo", "nccl", "threaded"} THEN None ELSE "backend_not_supporting_cuda")
    ELSE "device_type"

\* the size check alone
MeshError_NoUniqueCheck(m) == IF Numel(m) > WorldSize THEN "too_big" ELSE None

\* the size check and the uniqueness check of the mesh
MeshError(m) ==
    IF Numel(m) > WorldSize THEN "too_big"
    ELSE IF Len(Unique(m)) # Numel(m) THEN "duplicate"
    ELSE None

\* rank_coords and self._coordinate_on_dim
RankCoords(m, r) == NonzeroEq(m, r)
CoordinateOnDim(m, r) == IF Len(RankCoords(m, r)) > 0 THEN Some(RankCoords(m, r)[1]) ELSE NoneOpt

\* the dim_groups argument: None, a list of objects, or something else
NoneArg == [kind |-> "None", items |-> <<>>]
ListArg(items) == [kind |-> "list", items |-> items]
OtherArg == [kind |-> "other", items |-> <<>>]
SomeObject == [kind |-> "object", id |-> 0, ranks |-> <<>>]

\* self.get_rank() in self.mesh
InMesh(m, r) == r \in Range(m.data)

\* the checks of a supplied dim_groups list without the length checks
DimGroupsError_NoLenCheck(arg, m, r) ==
    IF arg.kind # "list" THEN "dim_groups_not_list"
    ELSE IF \E i \in 1 .. Len(arg.items) : arg.items[i].kind # "ProcessGroup" THEN "dim_groups_not_pg"
    ELSE None

\* the checks of a supplied dim_groups list
DimGroupsError(arg, m, r) ==
    IF arg.kind # "list" THEN "dim_groups_not_list"
    ELSE IF \E i \in 1 .. Len(arg.items) : arg.items[i].kind # "ProcessGroup" THEN "dim_groups_not_pg"
    ELSE IF InMesh(m, r) THEN (IF Len(arg.items) # Ndim(m) THEN "dim_groups_len" ELSE None)
    ELSE (IF Len(arg.items) # 0 THEN "dim_groups_len_absent" ELSE None)

\* the comparison with world_size instead of world_size - 1
SameAsWorld_OffByOne(m) == Ndim(m) = 1 /\ Unique(m)[Len(Unique(m))] = WorldSize

\* the mesh is taken to be the same as the world group
SameAsWorld(m) == Ndim(m) = 1 /\ Unique(m)[Len(Unique(m))] = WorldSize - 1

\* the reshape without the swap of dim to the last axis
PgRanksByDim_NoSwap(m, dim) == Rows(m, Size(m, dim))

\* pg_ranks_by_dim = self.mesh.swapdims(-1, dim).reshape(-1, self.mesh.size(dim))
PgRanksByDim(m, dim) == Rows(SwapDims(m, Ndim(m), dim + 1), Size(m, dim))

\* what __init__ leaves behind when it raises: no DeviceMesh object
Raised(e, inited) ==
    [pc |-> "error", error |-> e, inited |-> inited, backend |-> None,
     coord |-> NoneOpt, groups |-> <<>>, calls |-> <<>>, dim |-> 0, line |-> 0,
     rows |-> <<>>]

\* the ranks and the backend of a new_group call
NewGroupCall(ranks, be) == [ranks |-> ranks, backend |-> be]

\* entry into the derivation loop: pg_ranks_by_dim of dim 0 and the first
\* new_group call
EnterLoop(built, m, be) ==
    LET rows == PgRanksByDim(m, 0)
    IN  [built EXCEPT !.pc = "new_group", !.dim = 0, !.line = 1, !.rows = rows,
                      !.calls = <<NewGroupCall(rows[1], be)>>]

\* DeviceMesh.__init__ on rank r, up to its return, its error or its first
\* new_group call
InitBody(r, m, dt, arg, wasInit, wbe) ==
    IF ~wasInit /\ BootstrapError(m) # None THEN Raised(BootstrapError(m), FALSE)
    ELSE
    LET be == IF wasInit THEN wbe ELSE BootstrapBackend(dt)
        built == [pc |-> "done", error |-> None, inited |-> ~wasInit, backend |-> be,
                  coord |-> CoordinateOnDim(m, r), groups |-> <<>>, calls |-> <<>>,
                  dim |-> 0, line |-> 0, rows |-> <<>>]
    IN  IF DeviceTypeError(dt, be) # None THEN Raised(DeviceTypeError(dt, be), ~wasInit)
        ELSE IF MeshError(m) # None THEN Raised(MeshError(m), ~wasInit)
        ELSE IF Len(RankCoords(m, r)) \notin {0, 1} THEN Raised("rank_coords_assert", ~wasInit)
        ELSE IF arg.kind # "None" THEN
            (IF DimGroupsError(arg, m, r) # None THEN Raised(DimGroupsError(arg, m, r), ~wasInit)
             ELSE [built EXCEPT !.groups = arg.items])
        ELSE IF SameAsWorld(m) THEN [built EXCEPT !.groups = <<WORLD>>]
        ELSE IF Ndim(m) = 0 THEN built
        ELSE EnterLoop(built, m, be)

\* a new object that starts from the groups of the earlier object
EmptyDimGroups_Keep(old) == old

\* self._dim_groups: List[ProcessGroup] = [] of a new object, whatever an
\* earlier object of the process holds
EmptyDimGroups(old) == <<>>

\* DeviceMesh.__init__ on process p up to its return, its error or its first
\* new_group call
ConstructStep(p) ==
    /\ \E r \in {InitBody(p, mesh, device_type, dim_groups_arg, initialized[p], world_backend)} :
           /\ pc' = [pc EXCEPT ![p] = r.pc]
           /\ error' = [error EXCEPT ![p] = r.error]
           /\ initialized' = [initialized EXCEPT ![p] = @ \/ r.inited]
           /\ init_calls' = [init_calls EXCEPT ![p] = IF r.inited THEN @ + 1 ELSE @]
           /\ world_backend' = IF r.inited THEN BootstrapBackend(device_type) ELSE world_backend
           /\ backend' = [backend EXCEPT ![p] = r.backend]
           /\ coordinate_on_dim' = [coordinate_on_dim EXCEPT ![p] = r.coord]
           /\ dim_groups' = [dim_groups EXCEPT ![p] = EmptyDimGroups(@) \o r.groups]
           /\ new_group_calls' = [new_group_calls EXCEPT ![p] = @ \o r.calls]
           /\ cur_dim' = [cur_dim EXCEPT ![p] = r.dim]
           /\ cur_line' = [cur_line EXCEPT ![p] = r.line]
           /\ pg_ranks_by_dim' = [pg_ranks_by_dim EXCEPT ![p] = r.rows]
    /\ UNCHANGED <<mesh, device_type, dim_groups_arg, last_op, regvars>>

\* a process calls DeviceMesh(device_type, mesh, dim_groups)
Construct(p) ==
    /\ pc[p] = "start"
    /\ ConstructStep(p)
    /\ UNCHANGED first_mesh

\* new_group is a rendezvous of the whole world: the k-th call of a process
\* returns once every process has issued its k-th call
Arrived(k) == \A q \in Procs : Len(new_group_calls[q]) >= k

\* the loop after the body of line l of dimension d: the next line, the first
\* line of the next dimension, or the end of __init__
LoopNext(st, m, be, d, l, rows) ==
    IF l < Len(rows)
    THEN [st EXCEPT !.pc = "new_group", !.dim = d, !.line = l + 1, !.rows = rows,
                    !.call = <<NewGroupCall(rows[l + 1], be)>>]
    ELSE IF d + 1 < Ndim(m)
    THEN LET rows2 == PgRanksByDim(m, d + 1)
         IN  [st EXCEPT !.pc = "new_group", !.dim = d + 1, !.line = 1, !.rows = rows2,
                        !.call = <<NewGroupCall(rows2[1], be)>>]
    ELSE st

\* the loop body of a rank that leaves a dimension as soon as it has found
\* its line, without the new_group calls of the lines that follow
LoopBody_MemberLeavesDim(r, m, be, d, l, k, rows, groups) ==
    LET subgroup_ranks == rows[l]
        new_subgroup == NewGroup(k, subgroup_ranks)
        member == r \in Range(subgroup_ranks)
    IN  IF member /\ Len(groups) > d
        THEN [pc |-> "error", error |-> "one_group_per_dim", groups |-> <<>>,
              dim |-> 0, line |-> 0, rows |-> <<>>, call |-> <<>>]
        ELSE LoopNext([pc |-> "done", error |-> None,
                       groups |-> IF member THEN Append(groups, new_subgroup) ELSE groups,
                       dim |-> 0, line |-> 0, rows |-> <<>>, call |-> <<>>],
                      m, be, d, IF member THEN Len(rows) ELSE l, rows)

\* the body of the derivation loop after new_group returned its k-th group,
\* on rank r with the groups it has recorded so far
LoopBody(r, m, be, d, l, k, rows, groups) ==
    LET subgroup_ranks == rows[l]
        new_subgroup == NewGroup(k, subgroup_ranks)
        member == r \in Range(subgroup_ranks)
    IN  IF member /\ Len(groups) > d
        THEN [pc |-> "error", error |-> "one_group_per_dim", groups |-> <<>>,
              dim |-> 0, line |-> 0, rows |-> <<>>, call |-> <<>>]
        ELSE LoopNext([pc |-> "done", error |-> None,
                       groups |-> IF member THEN Append(groups, new_subgroup) ELSE groups,
                       dim |-> 0, line |-> 0, rows |-> <<>>, call |-> <<>>],
                      m, be, d, l, rows)

\* a process returns from new_group and runs on to its next new_group call
\* or to the end of __init__
NewGroupReturn(p) ==
    /\ pc[p] = "new_group"
    /\ Arrived(Len(new_group_calls[p]))
    /\ \E r \in {LoopBody(p, mesh, backend[p], cur_dim[p], cur_line[p],
                          Len(new_group_calls[p]), pg_ranks_by_dim[p], dim_groups[p])} :
           /\ pc' = [pc EXCEPT ![p] = r.pc]
           /\ error' = [error EXCEPT ![p] = r.error]
           /\ dim_groups' = [dim_groups EXCEPT ![p] = r.groups]
           /\ cur_dim' = [cur_dim EXCEPT ![p] = r.dim]
           /\ cur_line' = [cur_line EXCEPT ![p] = r.line]
           /\ pg_ranks_by_dim' = [pg_ranks_by_dim EXCEPT ![p] = r.rows]
           /\ new_group_calls' = [new_group_calls EXCEPT ![p] = @ \o r.call]
    /\ UNCHANGED <<mesh, device_type, dim_groups_arg, initialized, world_backend,
                   backend, coordinate_on_dim, init_calls, last_op, first_mesh, regvars>>

\* ------------------------------------------------------- specifications
\* the mesh arguments: a scalar, lists of one to four entries and 2-d arrays
\* of ranks and of the integer that is no rank; lists of five ranks and 3-d
\* arrays of ranks
MeshShapes == {<<>>, <<1>>, <<2>>, <<3>>, <<4>>, <<1, 2>>, <<2, 1>>, <<2, 2>>}
RankMeshShapes == {<<5>>, <<2, 2, 1>>}
TensorsOf(shape, vals) == {[shape |-> shape, data |-> d] : d \in [1 .. Prod(shape) -> vals]}
Meshes ==
    UNION {TensorsOf(sh, MeshVals) : sh \in MeshShapes}
    \cup UNION {TensorsOf(sh, Procs) : sh \in RankMeshShapes}

InitProcs ==
    /\ pc = [p \in Procs |-> "start"]
    /\ error = [p \in Procs |-> None]
    /\ backend = [p \in Procs |-> None]
    /\ coordinate_on_dim = [p \in Procs |-> NoneOpt]
    /\ dim_groups = [p \in Procs |-> <<>>]
    /\ cur_dim = [p \in Procs |-> 0]
    /\ cur_line = [p \in Procs |-> 0]
    /\ pg_ranks_by_dim = [p \in Procs |-> <<>>]
    /\ new_group_calls = [p \in Procs |-> <<>>]
    /\ init_calls = [p \in Procs |-> 0]
    /\ last_op = NoOp
    /\ first_mesh = [p \in Procs |-> NoneOpt]
    /\ instances = <<>>
    /\ global_device_mesh = NoneOpt
    /\ registry_log = <<>>

\* a world initialized with nccl; every process constructs a cuda mesh without
\* dim_groups
Init ==
    /\ mesh \in Meshes
    /\ device_type = "cuda"
    /\ world_backend = "nccl"
    /\ dim_groups_arg = NoneArg
    /\ initialized = [p \in Procs |-> TRUE]
    /\ InitProcs

Next ==
    \/ \E p \in Procs : Construct(p)
    \/ \E p \in Procs : NewGroupReturn(p)

Spec == Init /\ [][Next]_vars

\* the processes run: while some process can call its constructor or return
\* from a new_group call whose rendezvous is complete, one of them does
Fairness == WF_vars(Next)

\* the meshes of the runs followed to their end: scalars and lists of two
\* entries, lists of three ranks, 2-d arrays of two ranks, and the 2-d arrays
\* of four ranks in increasing order
LiveMeshes ==
    UNION {TensorsOf(sh, MeshVals) : sh \in {<<>>, <<2>>}}
    \cup UNION {TensorsOf(sh, Procs) : sh \in {<<3>>, <<1, 2>>, <<2, 1>>}}
    \cup {m \in TensorsOf(<<2, 2>>, Procs) : \A i \in 1 .. 3 : m.data[i] < m.data[i + 1]}

InitLive ==
    /\ mesh \in LiveMeshes
    /\ device_type = "cuda"
    /\ world_backend = "nccl"
    /\ dim_groups_arg = NoneArg
    /\ initialized = [p \in Procs |-> TRUE]
    /\ InitProcs

SpecLive == InitLive /\ [][Next]_vars /\ Fairness

\* a world that may not be initialized yet, with every device type and
\* every backend: the meshes are short lists and, where the world is created
\* by the constructor, the lists and arrays of WorldSize and more entries and
\* the lists of -1 and all but one of 0 .. WorldSize
SmallMeshes == UNION {TensorsOf(sh, MeshVals) : sh \in {<<>>, <<1>>, <<2>>, <<3>>, <<1, 2>>}}
BootMeshes ==
    UNION {TensorsOf(sh, 0 .. WorldSize) : sh \in {<<3>>, <<4>>, <<2, 2>>}}
    \cup TensorsOf(<<5>>, Procs)
    \cup {[shape |-> <<WorldSize + 1>>, data |-> <<-1>> \o SortedSeq((0 .. WorldSize) \ {v})] :
             v \in 0 .. WorldSize}

InitCfg ==
    /\ device_type \in DeviceTypes
    /\ \E wasInit \in BOOLEAN :
          /\ initialized = [p \in Procs |-> wasInit]
          /\ IF wasInit
             THEN world_backend \in Backends /\ mesh \in SmallMeshes
             ELSE world_backend = None /\ mesh \in BootMeshes
    /\ dim_groups_arg = NoneArg
    /\ InitProcs

SpecCfg == InitCfg /\ [][Next]_vars

\* a constructor call with a dim_groups argument: None, something that is no
\* list, or a list of up to two process groups and other objects
UserGroups == {ProcessGroup(7, <<0, 1>>), ProcessGroup(8, <<2, 3>>)}
DimGroupsItems == UserGroups \cup {SomeObject}
DimGroupsArgs ==
    {NoneArg, OtherArg}
    \cup {ListArg(<<>>)}
    \cup {ListArg(<<a>>) : a \in DimGroupsItems}
    \cup {ListArg(<<a, b>>) : a \in DimGroupsItems, b \in DimGroupsItems}
ArgMeshes == UNION {TensorsOf(sh, Procs) : sh \in {<<>>, <<1>>, <<2>>, <<1, 2>>}}

InitArg ==
    /\ mesh \in ArgMeshes
    /\ device_type = "cuda"
    /\ world_backend = "nccl"
    /\ dim_groups_arg \in DimGroupsArgs
    /\ initialized = [p \in Procs |-> TRUE]
    /\ InitProcs

SpecArg == InitArg /\ [][Next]_vars

\* a process that holds a DeviceMesh constructs a second one from the same
\* arguments; the first is kept for comparison
ConstructAgain(p) ==
    /\ pc[p] = "done"
    /\ first_mesh[p] = NoneOpt
    /\ first_mesh' = [first_mesh EXCEPT ![p] =
                         Some([coordinate |-> coordinate_on_dim[p], dim_groups |-> dim_groups[p]])]
    /\ ConstructStep(p)

\* every process constructs two meshes one after the other, in a world that
\* is initialized or that the first constructor initializes
TwiceMeshes == UNION {TensorsOf(sh, Procs) : sh \in {<<>>, <<2>>, <<4>>, <<2, 2>>}}

InitTwice ==
    /\ mesh \in TwiceMeshes
    /\ device_type = "cuda"
    /\ \E wasInit \in BOOLEAN :
          /\ initialized = [p \in Procs |-> wasInit]
          /\ world_backend = IF wasInit THEN "nccl" ELSE None
    /\ dim_groups_arg = NoneArg
    /\ InitProcs

NextTwice ==
    \/ \E p \in Procs : Construct(p)
    \/ \E p \in Procs : NewGroupReturn(p)
    \/ \E p \in Procs : ConstructAgain(p)

SpecTwice == InitTwice /\ [][NextTwice]_vars

\* ----------------------------------------------------- collective wrappers
\* list[i] of Python, i 0-based, negative i counted from the end; no element
\* stands for IndexError
PyIndex(list, i) ==
    IF 0 <= i /\ i < Len(list) THEN Some(list[i + 1])
    ELSE IF i < 0 /\ -i <= Len(list) THEN Some(list[Len(list) + i + 1])
    ELSE NoneOpt

\* Tensor.narrow(dim, start, length), dim 0-based
Narrow(t, dim, start, length) ==
    LET shape2 == [t.shape EXCEPT ![dim + 1] = length]
    IN  [shape |-> shape2,
         data  |-> [k \in 1 .. Prod(shape2) |->
                       At(t, [Unravel(k - 1, shape2) EXCEPT ![dim + 1] = @ + start])]]

\* Tensor.chunk(chunks, dim): pieces of ceil(size / chunks) along dim, as many
\* as the size gives
CeilDiv(a, b) == (a + b - 1) \div b
Chunk(t, chunks, dim) ==
    LET size == Size(t, dim)
        split == CeilDiv(size, chunks)
    IN  [i \in 1 .. CeilDiv(size, split) |->
            Narrow(t, dim, (i - 1) * split,
                   IF i * split <= size THEN split ELSE size - (i - 1) * split)]

\* get_rank(group): the position of the caller in the group, -1 outside it
GetGroupRank(group, r) ==
    IF r \in Range(group.ranks) THEN GroupRank(group, r) ELSE -1

\* funcol.reduce_scatter_tensor: of the reduction of the inputs over the
\* group, the caller's chunk along scatter_dim
ReduceScatterTensor(reduced, scatter_dim, group, r) ==
    PyIndex(Chunk(reduced, GroupSize(group), scatter_dim), GetGroupRank(group, r))

\* a call of the transport layer
TransportCall(fn, src, group, payload) ==
    [fn |-> fn, src |-> src, group |-> group, payload |-> payload]

\* the wrapper call in progress: the transport calls it made, its error, its
\* result
OpRecord(op, caller, mesh_dim) ==
    [op |-> op, caller |-> caller, mesh_dim |-> mesh_dim, scatter_dim |-> 0,
     meta |-> FALSE, error |-> None, transport |-> <<>>, reduced |-> NoneOpt,
     result |-> NoneOpt]

\* src_for_dim of scatter and broadcast
SrcForDim(dim_group) == IF dim_group # WORLD THEN GetGlobalRank(dim_group, 0) ELSE 0

\* scatter resolving the dimension group before it tests for a meta tensor
ScatterBody_ResolveFirst(r, groups, mesh_dim, is_meta) ==
    LET rec == [OpRecord("scatter", r, mesh_dim) EXCEPT !.meta = is_meta]
    IN  IF PyIndex(groups, mesh_dim) = NoneOpt THEN [rec EXCEPT !.error = "IndexError"]
        ELSE IF is_meta THEN rec
        ELSE LET dim_group == PyIndex(groups, mesh_dim)[1]
                 src_for_dim == SrcForDim(dim_group)
             IN  [rec EXCEPT !.transport =
                     <<TransportCall("scatter", src_for_dim, dim_group,
                                     IF src_for_dim = r THEN "scatter_list" ELSE "None")>>]

\* DeviceMesh.scatter on rank r
ScatterBody(r, groups, mesh_dim, is_meta) ==
    LET rec == [OpRecord("scatter", r, mesh_dim) EXCEPT !.meta = is_meta]
    IN  IF is_meta THEN rec
        ELSE IF PyIndex(groups, mesh_dim) = NoneOpt THEN [rec EXCEPT !.error = "IndexError"]
        ELSE LET dim_group == PyIndex(groups, mesh_dim)[1]
                 src_for_dim == SrcForDim(dim_group)
             IN  [rec EXCEPT !.transport =
                     <<TransportCall("scatter", src_for_dim, dim_group,
                                     IF src_for_dim = r THEN "scatter_list" ELSE "None")>>]

\* DeviceMesh.broadcast on rank r
BroadcastBody(r, groups, mesh_dim, is_meta) ==
    LET rec == [OpRecord("broadcast", r, mesh_dim) EXCEPT !.meta = is_meta]
    IN  IF is_meta THEN rec
        ELSE IF PyIndex(groups, mesh_dim) = NoneOpt THEN [rec EXCEPT !.error = "IndexError"]
        ELSE LET dim_group == PyIndex(groups, mesh_dim)[1]
             IN  [rec EXCEPT !.transport =
                     <<TransportCall("broadcast", SrcForDim(dim_group), dim_group, "tensor")>>]

\* the gloo branch of reduce_scatter: all_reduce, then chunk and pick
GlooReduceScatter(rec, dim_group, r, reduced) ==
    LET flat_tensor == reduced
        chunks == Chunk(flat_tensor, GroupSize(dim_group), 0)
        scatter_tensor == PyIndex(chunks, GetGroupRank(dim_group, r))
    IN  IF scatter_tensor = NoneOpt
        THEN [rec EXCEPT !.error = "IndexError",
                         !.transport = <<TransportCall("all_reduce", -1, dim_group, "input")>>]
        ELSE [rec EXCEPT !.result = scatter_tensor,
                         !.transport = <<TransportCall("all_reduce", -1, dim_group, "input")>>]

\* DeviceMesh.reduce_scatter on rank r; reduced is the reduction of the
\* inputs of the group's ranks, which the transport computes
ReduceScatterBody(r, be, groups, mesh_dim, scatter_dim, reduced) ==
    LET rec == [OpRecord("reduce_scatter", r, mesh_dim) EXCEPT
                   !.scatter_dim = scatter_dim, !.reduced = Some(reduced)]
    IN  IF be \in {"nccl", "threaded"} THEN
            (IF PyIndex(groups, mesh_dim) = NoneOpt THEN [rec EXCEPT !.error = "IndexError"]
             ELSE LET dim_group == PyIndex(groups, mesh_dim)[1]
                      scatter_tensor == ReduceScatterTensor(reduced, scatter_dim, dim_group, r)
                  IN  IF scatter_tensor = NoneOpt
                      THEN [rec EXCEPT !.error = "transport_error",
                               !.transport = <<TransportCall("reduce_scatter_tensor", -1, dim_group, "input")>>]
                      ELSE [rec EXCEPT !.result = scatter_tensor,
                               !.transport = <<TransportCall("reduce_scatter_tensor", -1, dim_group, "input")>>])
        ELSE IF be = "gloo" THEN
            (IF PyIndex(groups, mesh_dim) = NoneOpt THEN [rec EXCEPT !.error = "IndexError"]
             ELSE GlooReduceScatter(rec, PyIndex(groups, mesh_dim)[1], r, reduced))
        ELSE [rec EXCEPT !.error = "unsupported"]

\* DeviceMesh.all_gather on rank r
AllGatherBody(r, groups, mesh_dim) ==
    LET rec == OpRecord("all_gather", r, mesh_dim)
    IN  IF PyIndex(groups, mesh_dim) = NoneOpt THEN [rec EXCEPT !.error = "IndexError"]
        ELSE [rec EXCEPT !.transport =
                 <<TransportCall("all_gather_tensor", -1, PyIndex(groups, mesh_dim)[1], "tensor")>>]

\* DeviceMesh.all_reduce on rank r
AllReduceBody(r, groups, mesh_dim) ==
    LET rec == OpRecord("all_reduce", r, mesh_dim)
    IN  IF PyIndex(groups, mesh_dim) = NoneOpt THEN [rec EXCEPT !.error = "IndexError"]
        ELSE [rec EXCEPT !.transport =
                 <<TransportCall("all_reduce", -1, PyIndex(groups, mesh_dim)[1], "tensor")>>]

\* the i-th scatter of the gloo branch of all_to_all on rank r
AllToAllScatter(r, dim_group, i) ==
    LET src_for_dim == IF dim_group # WORLD THEN GetGlobalRank(dim_group, i) ELSE i
    IN  [fn |-> "scatter", src |-> src_for_dim, group |-> dim_group,
         payload |-> IF r = src_for_dim THEN "input_tensor_list" ELSE "[]",
         output |-> i]

\* DeviceMesh.all_to_all on rank r
AllToAllBody(r, be, groups, mesh_dim) ==
    LET rec == OpRecord("all_to_all", r, mesh_dim)
    IN  IF PyIndex(groups, mesh_dim) = NoneOpt THEN [rec EXCEPT !.error = "IndexError"]
        ELSE LET dim_group == PyIndex(groups, mesh_dim)[1]
                 dim_group_size == GroupSize(dim_group)
             IN  IF be = "gloo"
                 THEN [rec EXCEPT !.transport =
                          [k \in 1 .. dim_group_size |-> AllToAllScatter(r, dim_group, k - 1)]]
                 ELSE IF be = "nccl"
                 THEN [rec EXCEPT !.transport =
                          <<TransportCall("all_to_all", -1, dim_group, "input_tensor_list")>>]
                 ELSE [rec EXCEPT !.error = "unsupported"]

\* the mesh_dim and scatter_dim arguments and the tensors of the calls
MeshDimArgs == 0 .. 1
ScatterDimArgs == 0 .. 1
InputTensors == TensorsOf(<<2, 2>>, {0, 1})

Collective == UNCHANGED <<mesh, device_type, dim_groups_arg, initialized, world_backend,
                          pc, error, backend, coordinate_on_dim, dim_groups, cur_dim,
                          cur_line, pg_ranks_by_dim, new_group_calls, init_calls, first_mesh,
                          regvars>>

Scatter(p) ==
    /\ pc[p] = "done"
    /\ last_op = NoOp
    /\ \E mesh_dim \in MeshDimArgs, is_meta \in BOOLEAN :
          last_op' = ScatterBody(p, dim_groups[p], mesh_dim, is_meta)
    /\ Collective

Broadcast(p) ==
    /\ pc[p] = "done"
    /\ last_op = NoOp
    /\ \E mesh_dim \in MeshDimArgs, is_meta \in BOOLEAN :
          last_op' = BroadcastBody(p, dim_groups[p], mesh_dim, is_meta)
    /\ Collective

ReduceScatter(p) ==
    /\ pc[p] = "done"
    /\ last_op = NoOp
    /\ \E mesh_dim \in MeshDimArgs, scatter_dim \in ScatterDimArgs, reduced \in InputTensors :
          last_op' = ReduceScatterBody(p, backend[p], dim_groups[p], mesh_dim, scatter_dim, reduced)
    /\ Collective

AllGather(p) ==
    /\ pc[p] = "done"
    /\ last_op = NoOp
    /\ \E mesh_dim \in MeshDimArgs : last_op' = AllGatherBody(p, dim_groups[p], mesh_dim)
    /\ Collective

AllReduce(p) ==
    /\ pc[p] = "done"
    /\ last_op = NoOp
    /\ \E mesh_dim \in MeshDimArgs : last_op' = AllReduceBody(p, dim_groups[p], mesh_dim)
    /\ Collective

AllToAll(p) ==
    /\ pc[p] = "done"
    /\ last_op = NoOp
    /\ \E mesh_dim \in MeshDimArgs :
          last_op' = AllToAllBody(p, backend[p], dim_groups[p], mesh_dim)
    /\ Collective

\* the caller has taken the result of the wrapper call
CollectiveReturn ==
    /\ last_op # NoOp
    /\ last_op' = NoOp
    /\ Collective

\* the constructor of rank r run to its end: the derivation loop from line l
\* of dimension d on, every new_group call returning
RECURSIVE RunLoop(_, _, _, _, _, _, _, _, _)
RunLoop(r, m, be, d, l, k, rows, groups, calls) ==
    LET st == LoopBody(r, m, be, d, l, k, rows, groups)
    IN  IF st.pc = "new_group"
        THEN RunLoop(r, m, be, st.dim, st.line, k + 1, st.rows, st.groups, calls \o st.call)
        ELSE [st EXCEPT !.call = calls]

Constructed(r, m, dt, arg, wbe) ==
    LET st == InitBody(r, m, dt, arg, TRUE, wbe)
    IN  IF st.pc = "new_group"
        THEN LET end == RunLoop(r, m, st.backend, 0, 1, 1, st.rows, st.groups, st.calls)
             IN  [st EXCEPT !.pc = end.pc, !.error = end.error, !.groups = end.groups,
                            !.calls = end.call, !.dim = 0, !.line = 0, !.rows = <<>>]
        ELSE st

\* the meshes the collectives are called on
CollMeshes ==
    UNION {TensorsOf(sh, MeshVals) : sh \in {<<1>>, <<2>>}}
    \cup UNION {TensorsOf(sh, Procs) : sh \in {<<4>>, <<2, 2>>}}

\* an initialized world in which every process has run the constructor on
\* the same mesh, without dim_groups
InitColl ==
    /\ mesh \in CollMeshes
    /\ \E c \in {<<"cpu", "gloo">>, <<"cuda", "nccl">>, <<"cuda", "threaded">>} :
          device_type = c[1] /\ world_backend = c[2]
    /\ dim_groups_arg = NoneArg
    /\ initialized = [p \in Procs |-> TRUE]
    /\ init_calls = [p \in Procs |-> 0]
    /\ cur_dim = [p \in Procs |-> 0]
    /\ cur_line = [p \in Procs |-> 0]
    /\ pg_ranks_by_dim = [p \in Procs |-> <<>>]
    /\ \E st \in {[p \in Procs |-> Constructed(p, mesh, device_type, dim_groups_arg, world_backend)]} :
          /\ pc = [p \in Procs |-> st[p].pc]
          /\ error = [p \in Procs |-> st[p].error]
          /\ backend = [p \in Procs |-> st[p].backend]
          /\ coordinate_on_dim = [p \in Procs |-> st[p].coord]
          /\ dim_groups = [p \in Procs |-> st[p].groups]
          /\ new_group_calls = [p \in Procs |-> st[p].calls]
    /\ last_op = NoOp
    /\ first_mesh = [p \in Procs |-> NoneOpt]
    /\ instances = <<>>
    /\ global_device_mesh = NoneOpt
    /\ registry_log = <<>>

NextColl ==
    \/ \E p \in Procs : Scatter(p)
    \/ \E p \in Procs : Broadcast(p)
    \/ \E p \in Procs : ReduceScatter(p)
    \/ \E p \in Procs : AllGather(p)
    \/ \E p \in Procs : AllReduce(p)
    \/ \E p \in Procs : AllToAll(p)
    \/ CollectiveReturn

SpecColl == InitColl /\ [][NextColl]_vars

\* ------------------------------------------------- all_to_all with async_op
\* all_to_all with its async_op argument: the Work objects of its transport
\* calls and the one that line 557 returns.  A call made with async_op=False
\* is complete when it returns and gives no Work object; in the gloo loop
\* every scatter assigns to the same variable work.
AllToAllAsyncBody(r, be, groups, mesh_dim, async_op) ==
    LET rec == AllToAllBody(r, be, groups, mesh_dim)
        n == Len(rec.transport)
    IN  rec @@ [async_op |-> async_op,
                works |-> [i \in 1 .. n |-> IF async_op THEN "pending" ELSE "done"],
                work |-> IF async_op /\ n > 0 THEN Some(n) ELSE NoneOpt,
                waited |-> FALSE]

AllToAllAsync(p) ==
    /\ pc[p] = "done"
    /\ last_op = NoOp
    /\ \E mesh_dim \in MeshDimArgs, async_op \in BOOLEAN :
          last_op' = AllToAllAsyncBody(p, backend[p], dim_groups[p], mesh_dim, async_op)
    /\ Collective

\* the transport completes one of the pending operations; the operations of
\* one call are separate pieces of work and complete in any order
WorkCompletes(i) ==
    /\ last_op.op = "all_to_all"
    /\ i \in 1 .. Len(last_op.works)
    /\ last_op.works[i] = "pending"
    /\ last_op' = [last_op EXCEPT !.works[i] = "done"]
    /\ Collective

\* work.wait() of the caller on the Work object all_to_all returned: it
\* returns once that operation is complete
WaitWork ==
    /\ last_op.op = "all_to_all"
    /\ last_op.work # NoneOpt
    /\ ~last_op.waited
    /\ last_op.works[last_op.work[1]] = "done"
    /\ last_op' = [last_op EXCEPT !.waited = TRUE]
    /\ Collective

NextAsync ==
    \/ \E p \in Procs : AllToAllAsync(p)
    \/ \E i \in 1 .. WorldSize : WorkCompletes(i)
    \/ WaitWork
    \/ CollectiveReturn

SpecAsync == InitColl /\ [][NextAsync]_vars

\* ------------------------------------------- default-mesh registry, __eq__
\* number of __enter__ and __exit__ calls followed
MaxOps == 3

\* the DeviceMesh objects of one process: each has its identity, its mesh
\* tensor, which is an object of its own, its backend and its coordinate
InstanceIds == {"a", "b"}
RegMeshes ==
    {m \in TensorsOf(<<2>>, 0 .. 1) \cup TensorsOf(<<1, 2>>, 0 .. 1) : MeshError(m) = None}
InstanceAttrs ==
    {[mesh |-> m, backend |-> be, coordinate |-> CoordinateOnDim(m, r)] :
        m \in RegMeshes, be \in {"gloo", "nccl"}, r \in {0, 2}}
DeviceMeshObject(i) ==
    [kind |-> "DeviceMesh", id |-> i, mesh |-> instances[i].mesh,
     backend |-> instances[i].backend, coordinate |-> instances[i].coordinate]
\* an object that is no DeviceMesh
OtherObject == [kind |-> "object", id |-> "o"]

\* set_global_device_mesh(mesh): the slot afterwards
SetGlobalDeviceMesh(m) == m

\* get_global_device_mesh() answering for an empty slot as for a set one
GetGlobalDeviceMesh_NoAssert(slot) == [error |-> None, result |-> slot]

\* get_global_device_mesh()
GetGlobalDeviceMesh(slot) ==
    IF slot = NoneOpt THEN [error |-> "AssertionError", result |-> NoneOpt]
    ELSE [error |-> None, result |-> slot]

\* Tensor.equal: same size and same elements
TensorEqual(a, b) == a.shape = b.shape /\ a.data = b.data

\* DeviceMesh.__eq__
Eq(self, other) ==
    IF other.kind # "DeviceMesh" THEN FALSE
    ELSE IF self.id = other.id THEN TRUE
    ELSE TensorEqual(self.mesh, other.mesh)

\* hash of a tensor is the identity of the tensor object; every DeviceMesh
\* has a mesh tensor of its own
TensorHash(self) == <<"Tensor", self.id>>
\* DeviceMesh.__hash__: hash((self.mesh, id(self)))
Hash(self) == <<TensorHash(self), self.id>>

Registry == UNCHANGED <<mesh, device_type, dim_groups_arg, initialized, world_backend,
                        pc, error, backend, coordinate_on_dim, dim_groups, cur_dim,
                        cur_line, pg_ranks_by_dim, new_group_calls, init_calls, first_mesh,
                        instances>>

\* with mesh: (DeviceMesh.__enter__)
Enter(i) ==
    /\ Len(registry_log) < MaxOps
    /\ global_device_mesh' = SetGlobalDeviceMesh(Some(i))
    /\ registry_log' = Append(registry_log, [op |-> "enter", self |-> i])
    /\ last_op' = [op |-> "enter", self |-> i, before |-> global_device_mesh,
                   error |-> None, result |-> Some(i)]
    /\ Registry

\* the end of a with block, reached normally or through an exception
\* (DeviceMesh.__exit__); the exception goes on to the caller
Exit(i, exc) ==
    /\ Len(registry_log) < MaxOps
    /\ global_device_mesh' = SetGlobalDeviceMesh(NoneOpt)
    /\ registry_log' = Append(registry_log, [op |-> "exit", self |-> i])
    /\ last_op' = [op |-> "exit", self |-> i, before |-> global_device_mesh,
                   error |-> IF exc THEN "exception of the block" ELSE None,
                   result |-> NoneOpt]
    /\ Registry

Get ==
    /\ \E r \in {GetGlobalDeviceMesh(global_device_mesh)} :
          last_op' = [op |-> "get", error |-> r.error, result |-> r.result]
    /\ UNCHANGED <<global_device_mesh, registry_log>>
    /\ Registry

\* self == other and the hashes of the two
Compare(i, other) ==
    /\ last_op' = [op |-> "eq", self |-> DeviceMeshObject(i), other |-> other,
                   result |-> Eq(DeviceMeshObject(i), other),
                   hash_self |-> Hash(DeviceMeshObject(i)),
                   hash_other |-> IF other.kind = "DeviceMesh" THEN Some(Hash(other)) ELSE NoneOpt]
    /\ UNCHANGED <<global_device_mesh, registry_log>>
    /\ Registry

\* one process that holds two DeviceMesh objects; no mesh is entered
InitReg ==
    /\ instances \in [InstanceIds -> InstanceAttrs]
    /\ global_device_mesh = NoneOpt
    /\ registry_log = <<>>
    /\ mesh = instances["a"].mesh
    /\ device_type = "cpu"
    /\ world_backend = "gloo"
    /\ dim_groups_arg = NoneArg
    /\ initialized = [p \in Procs |-> TRUE]
    /\ pc = [p \in Procs |-> "start"]
    /\ error = [p \in Procs |-> None]
    /\ backend = [p \in Procs |-> None]
    /\ coordinate_on_dim = [p \in Procs |-> NoneOpt]
    /\ dim_groups = [p \in Procs |-> <<>>]
    /\ cur_dim = [p \in Procs |-> 0]
    /\ cur_line = [p \in Procs |-> 0]
    /\ pg_ranks_by_dim = [p \in Procs |-> <<>>]
    /\ new_group_calls = [p \in Procs |-> <<>>]
    /\ init_calls = [p \in Procs |-> 0]
    /\ first_mesh = [p \in Procs |-> NoneOpt]
    /\ last_op = NoOp

NextReg ==
    \/ \E i \in InstanceIds : Enter(i)
    \/ \E i \in InstanceIds, exc \in BOOLEAN : Exit(i, exc)
    \/ Get
    \/ \E i \in InstanceIds, o \in {DeviceMeshObject(j) : j \in InstanceIds} \cup {OtherObject} :
          Compare(i, o)

SpecReg == InitReg /\ [][NextReg]_vars

\* ------------------------------------------------ DeviceMesh.get_coordinate
\* self._coordinate_on_dim if self._coordinate_on_dim else None: None and the
\* empty list are both false
GetCoordinate(c) == IF c # NoneOpt /\ c[1] # <<>> THEN c ELSE NoneOpt

\* ------------------------------------------------------------ properties
MeshRanks == Range(mesh.data)
NoDimGroupsArg == dim_groups_arg.kind = "None"
Done(p) == pc[p] = "done"
AllDone == \A p \in Procs : Done(p)
\* the index tuples of the mesh
Indices(m) == {Unravel(k, m.shape) : k \in 0 .. (Numel(m) - 1)}
\* the index tuple at which the mesh holds r
IndexOf(m, r) == CHOOSE idx \in Indices(m) : At(m, idx) = r
\* the index tuple idx with entry d (0-based) set to v
WithDim(idx, d, v) == [idx EXCEPT ![d + 1] = v]
\* the line through idx along dimension d, in the order of the dimension
LineSeq(m, idx, d) == [k \in 1 .. Size(m, d) |-> At(m, WithDim(idx, d, k - 1))]
\* the ranks that share every coordinate of idx but the one of dimension d
LineSet(m, idx, d) == Range(LineSeq(m, idx, d))
Dims(m) == 0 .. (Ndim(m) - 1)

\* C1: after every process constructed the mesh (no dim_groups), every rank
\* of the mesh holds exactly one group per dimension and, for every dimension,
\* the memberships of the groups the ranks hold add up to exactly the ranks of
\* the mesh.
C1_GroupsPartitionMesh ==
    (AllDone /\ NoDimGroupsArg) =>
        /\ \A r \in MeshRanks \cap Procs : Len(dim_groups[r]) = Ndim(mesh)
        /\ \A d \in Dims(mesh) :
              UNION {Range(dim_groups[r][d + 1].ranks) :
                        r \in {q \in Procs : Len(dim_groups[q]) > d}} = MeshRanks

\* the calls a process issued are, dimension after dimension, one call per
\* line of the dimension
RECURSIVE LinesBefore(_, _)
LinesBefore(m, d) == IF d = 0 THEN 0 ELSE LinesBefore(m, d - 1) + (Numel(m) \div Size(m, d - 1))
IsLineSequence(calls, m) ==
    /\ Len(calls) = LinesBefore(m, Ndim(m))
    /\ \A d \in Dims(m) :
          LET block == {calls[i].ranks : i \in (LinesBefore(m, d) + 1) .. LinesBefore(m, d + 1)}
          IN  /\ block = {LineSeq(m, idx, d) : idx \in Indices(m)}
              /\ Cardinality(block) = Numel(m) \div Size(m, d)

C3_GroupIsLine ==
    (AllDone /\ NoDimGroupsArg) =>
        \A r \in MeshRanks \cap Procs : \A d \in Dims(mesh) :
            /\ Len(dim_groups[r]) > d
            /\ Range(dim_groups[r][d + 1].ranks) = LineSet(mesh, IndexOf(mesh, r), d)

\* C4: a rank whose id does not appear in the mesh holds no dimension group.
C4_AbsentRankHoldsNoGroup ==
    \A p \in Procs : (Done(p) /\ NoDimGroupsArg /\ p \notin MeshRanks) => dim_groups[p] = <<>>

\* C5: a one-dimensional mesh that contains every rank of the world issues no
\* new_group call, and its only group is the default group itself.
C5_WorldMeshReusesDefaultGroup ==
    \A p \in Procs :
        (Done(p) /\ NoDimGroupsArg /\ Ndim(mesh) = 1 /\ MeshRanks = Procs) =>
            /\ new_group_calls[p] = <<>>
            /\ dim_groups[p] = <<WORLD>>

\* a process constructed a mesh that lists the whole world, not in rank order
C5_Witness ==
    \E p \in Procs :
        /\ Done(p) /\ NoDimGroupsArg /\ Ndim(mesh) = 1 /\ MeshRanks = Procs
        /\ mesh.data[1] # 0

\* C6: a constructed mesh has unique entries, all of them ranks of the world,
\* and no more entries than the world has ranks.
C6_ConstructedMeshInWorld ==
    \A p \in Procs : Done(p) =>
        /\ MeshRanks \subseteq Procs
        /\ Cardinality(MeshRanks) = Numel(mesh)
        /\ Numel(mesh) <= WorldSize

\* C7: get_coordinate() is None exactly on the ranks that do not appear in
\* the mesh, and on the others it is the index tuple at which the mesh holds
\* the rank.
C7_CoordinateIffInMesh ==
    \A p \in Procs : Done(p) =>
        /\ (GetCoordinate(coordinate_on_dim[p]) = NoneOpt) <=> (p \notin MeshRanks)
        /\ p \in MeshRanks =>
              /\ GetCoordinate(coordinate_on_dim[p]) # NoneOpt
              /\ GetCoordinate(coordinate_on_dim[p])[1] \in Indices(mesh)
              /\ At(mesh, GetCoordinate(coordinate_on_dim[p])[1]) = p

\* C8: a mesh with a duplicate value fails construction on every process
\* before any new_group call, any init_process_group call and any collective.
HasDuplicate(m) == Cardinality(Range(m.data)) # Numel(m)
C8_DuplicateMeshFailsEarly ==
    HasDuplicate(mesh) =>
        /\ \A p \in Procs :
              /\ pc[p] \in {"start", "error"}
              /\ new_group_calls[p] = <<>>
              /\ init_calls[p] = 0
              /\ initialized[p] = initialized[0]
        /\ last_op = NoOp

\* the mesh [0, 1, 1] was rejected on every process
C8_Witness ==
    /\ mesh.data = <<0, 1, 1>>
    /\ \A p \in Procs : pc[p] = "error"

\* the first rank of the line of rank r along dimension d
FirstOfLine(m, r, d) == At(m, WithDim(IndexOf(m, r), d, 0))

\* C9: scatter and broadcast on mesh dimension d name as source the first rank
\* of the caller's line along d, and scatter passes scatter_list exactly on
\* that rank and no input on the others.
C9_SourceIsFirstOfLine ==
    (/\ last_op.op \in {"scatter", "broadcast"}
     /\ NoDimGroupsArg
     /\ ~last_op.meta
     /\ last_op.caller \in MeshRanks
     /\ last_op.mesh_dim \in Dims(mesh)) =>
        /\ last_op.error = None
        /\ Len(last_op.transport) = 1
        /\ last_op.transport[1].src = FirstOfLine(mesh, last_op.caller, last_op.mesh_dim)
        /\ last_op.op = "scatter" =>
              last_op.transport[1].payload =
                 IF last_op.caller = FirstOfLine(mesh, last_op.caller, last_op.mesh_dim)
                 THEN "scatter_list" ELSE "None"

\* C10: on gloo, reduce_scatter returns, of the reduction over the caller's
\* line split into N equal chunks along scatter_dim (N the number of ranks of
\* the line), the chunk at the caller's position in the line.
C10_GlooChunkAlongScatterDim ==
    (/\ last_op.op = "reduce_scatter"
     /\ NoDimGroupsArg
     /\ backend[last_op.caller] = "gloo"
     /\ last_op.caller \in MeshRanks
     /\ last_op.mesh_dim \in Dims(mesh)
     /\ Size(last_op.reduced[1], last_op.scatter_dim) % Size(mesh, last_op.mesh_dim) = 0) =>
        LET n == Size(mesh, last_op.mesh_dim)
            pos == IndexOf(mesh, last_op.caller)[last_op.mesh_dim + 1]
            len == Size(last_op.reduced[1], last_op.scatter_dim) \div n
        IN  /\ last_op.error = None
            /\ last_op.transport[1].fn = "all_reduce"
            /\ Range(last_op.transport[1].group.ranks) =
                  LineSet(mesh, IndexOf(mesh, last_op.caller), last_op.mesh_dim)
            /\ last_op.result = Some(Narrow(last_op.reduced[1], last_op.scatter_dim, pos * len, len))

\* ---------------------------------------------------------------------------
\* C11: on a mesh whose backend is nccl or threaded, each of the six
\* collective operations hands its work to one native transport primitive and
\* none of them raises the unsupported-operation error.
SixOps == {"scatter", "broadcast", "all_gather", "all_reduce", "reduce_scatter", "all_to_all"}
NativePrimitives == {"scatter", "broadcast", "all_gather_tensor", "all_reduce",
                     "reduce_scatter_tensor", "all_to_all"}
C11_NativeOnNcclAndThreaded ==
    (last_op.op \in SixOps /\ backend[last_op.caller] \in {"nccl", "threaded"})
        => /\ last_op.error # "unsupported"
           /\ (~last_op.meta /\ last_op.error = None)
                  => /\ Len(last_op.transport) = 1
                     /\ last_op.transport[1].fn \in NativePrimitives

\* ---------------------------------------------------------------------------
\* C12: on gloo, all_to_all over a line of N ranks issues exactly N scatter
\* calls on every participant, for the source positions 0 .. N-1 in order: in
\* call i the source is the global rank at position i of the line, that rank
\* alone passes input_tensor_list, every other rank passes an empty payload,
\* and the destination is output_tensor_list[i].
C12_GlooAllToAllIsScatterPerSource ==
    (/\ last_op.op = "all_to_all"
     /\ backend[last_op.caller] = "gloo"
     /\ InMesh(mesh, last_op.caller)
     /\ last_op.mesh_dim \in Dims(mesh))
        => LET r == last_op.caller
               line == LineSeq(mesh, IndexOf(mesh, r), last_op.mesh_dim)
           IN  /\ last_op.error = None
               /\ Len(last_op.transport) = Len(line)
               /\ \A i \in 1 .. Len(line) :
                     /\ last_op.transport[i].fn = "scatter"
                     /\ last_op.transport[i].src = line[i]
                     /\ last_op.transport[i].payload =
                            (IF r = line[i] THEN "input_tensor_list" ELSE "[]")
                     /\ last_op.transport[i].output = i - 1

\* ---------------------------------------------------------------------------
\* C19: scatter with a meta output tensor and broadcast with a meta tensor
\* return None without resolving the dimension group (no IndexError) and
\* without any transport call, on every rank, also one that holds no
\* dimension group, and for every mesh_dim.
C19_MetaTensorShortCircuits ==
    (last_op.op \in {"scatter", "broadcast"} /\ last_op.meta)
        => /\ last_op.error = None
           /\ last_op.transport = <<>>
           /\ last_op.result = NoneOpt

\* a rank that holds no dimension group has called scatter with a meta tensor
C19_Witness ==
    /\ last_op.op = "scatter"
    /\ last_op.meta
    /\ dim_groups[last_op.caller] = <<>>
    /\ last_op.mesh_dim = 1

\* ---------------------------------------------------------------------------
\* C20: for every mesh that passes validation the derivation loop never raises
\* 'Each device mesh dimension should get only one process group': whenever
\* a rank is a member of the line whose group it is creating for dimension
\* d, it has recorded exactly d groups so far.
InCurrentLine(p) ==
    /\ pc[p] = "new_group"
    /\ p \in Range(pg_ranks_by_dim[p][cur_line[p]])
C20_OneGroupPerDimension ==
    NoDimGroupsArg =>
        \A p \in Procs :
            /\ error[p] # "one_group_per_dim"
            /\ InCurrentLine(p) => Len(dim_groups[p]) = cur_dim[p]

\* a rank is in the line being created for dimension 1, after it has recorded
\* its group of dimension 0
C20_Witness ==
    \E p \in Procs : InCurrentLine(p) /\ cur_dim[p] = 1 /\ Len(dim_groups[p]) = 1

\* ---------------------------------------------------------------------------
\* C17: a constructor that finds the communication layer not initialized
\* accepts the mesh, and calls init_process_group, if and only if the values
\* of the mesh are exactly 0 .. WORLD_SIZE-1, each once; on every other mesh
\* it raises one of the bootstrap's errors and has not called
\* init_process_group.
BootstrapErrors == {"world_size_mismatch", "duplicate", "not_from_0", "not_contiguous"}
IsWorldPermutation(m) == Numel(m) = EnvWorldSize /\ Range(m.data) = 0 .. (EnvWorldSize - 1)
BootstrapStep(p) == pc[p] = "start" /\ ~initialized[p] /\ pc'[p] # "start"
C17_BootstrapAcceptsWorldPermutationsOnly ==
    [][\A p \in Procs :
          BootstrapStep(p) =>
              /\ (init_calls'[p] = init_calls[p] + 1) <=> IsWorldPermutation(mesh)
              /\ ~IsWorldPermutation(mesh) =>
                     /\ pc'[p] = "error"
                     /\ error'[p] \in BootstrapErrors
                     /\ init_calls'[p] = init_calls[p]]_vars

\* the bootstrap has accepted a 2-d mesh and initialized the world
C17_Witness ==
    /\ Ndim(mesh) = 2
    /\ \E p \in Procs : init_calls[p] = 1 /\ pc[p] # "error"

\* ---------------------------------------------------------------------------
\* C15: when dim_groups is supplied, construction succeeds only if every
\* element is a ProcessGroup and the length of the list is mesh.ndim on a
\* rank of the mesh and 0 on a rank outside it, and raises otherwise; on
\* success the supplied list is the mesh's dimension groups, unchanged, and no
\* new_group call was issued.
DimGroupsWellFormed(arg, m, r) ==
    /\ arg.kind = "list"
    /\ \A i \in 1 .. Len(arg.items) : arg.items[i].kind = "ProcessGroup"
    /\ Len(arg.items) = (IF InMesh(m, r) THEN Ndim(m) ELSE 0)
C15_SuppliedDimGroupsAdopted ==
    ~NoDimGroupsArg =>
        \A p \in Procs :
            /\ pc[p] \in {"start", "done", "error"}
            /\ Done(p) => /\ DimGroupsWellFormed(dim_groups_arg, mesh, p)
                          /\ dim_groups[p] = dim_groups_arg.items
                          /\ new_group_calls[p] = <<>>
            /\ (pc[p] # "start" /\ ~DimGroupsWellFormed(dim_groups_arg, mesh, p))
                   => pc[p] = "error" /\ error[p] # None

\* a rank of a 2-d mesh has adopted two supplied groups and a rank outside
\* the mesh was refused them
C15_Witness ==
    /\ Ndim(mesh) = 2
    /\ Len(dim_groups_arg.items) = 2
    /\ \E p \in Procs : Done(p) /\ InMesh(mesh, p) /\ Len(dim_groups[p]) = 2
    /\ \E p \in Procs : pc[p] = "error" /\ ~InMesh(mesh, p)

\* ---------------------------------------------------------------------------
\* C18: a process that constructs two meshes one after the other from the
\* same grid gets the same coordinate in both and, for every dimension, a
\* group with the same members; the group handles may differ.
Members(group) == Range(group.ranks)
C18_SecondMeshSameAsFirst ==
    \A p \in Procs :
        (first_mesh[p] # NoneOpt /\ Done(p)) =>
            LET first == first_mesh[p][1]
            IN  /\ coordinate_on_dim[p] = first.coordinate
                /\ Len(dim_groups[p]) = Len(first.dim_groups)
                /\ \A d \in 1 .. Len(dim_groups[p]) :
                      Members(dim_groups[p][d]) = Members(first.dim_groups[d])

\* a rank of a 2-d mesh holds its second mesh, whose group handle of
\* dimension 0 is not that of the first
C18_Witness ==
    /\ Ndim(mesh) = 2
    /\ \E p \in Procs :
          /\ first_mesh[p] # NoneOpt
          /\ Done(p)
          /\ Len(dim_groups[p]) = 2
          /\ dim_groups[p][1] # first_mesh[p][1].dim_groups[1]

\* ---------------------------------------------------------------------------
\* C13: entering a DeviceMesh while another mesh is the active default mesh
\* fails, and the slot of the registry keeps the mesh it held.
C13_NestedEnterFails ==
    (/\ last_op.op = "enter"
     /\ last_op.before # NoneOpt
     /\ last_op.before # Some(last_op.self))
        => /\ last_op.error # None
           /\ global_device_mesh = last_op.before

\* ---------------------------------------------------------------------------
\* C14: after any sequence of enter and exit calls, an exit has left the slot
\* empty whatever it held and however the block ended, get_global_device_mesh
\* returns the mesh of the latest enter that no exit has followed, and it
\* fails whenever the slot is empty.
LatestOpenEnter(log) ==
    IF log = <<>> \/ log[Len(log)].op = "exit" THEN NoneOpt ELSE Some(log[Len(log)].self)
C14_RegistryFollowsEnterExit ==
    /\ global_device_mesh = LatestOpenEnter(registry_log)
    /\ last_op.op = "exit" => global_device_mesh = NoneOpt
    /\ last_op.op = "get" =>
          IF LatestOpenEnter(registry_log) = NoneOpt
          THEN last_op.error = "AssertionError" /\ last_op.result = NoneOpt
          ELSE last_op.error = None /\ last_op.result = LatestOpenEnter(registry_log)

\* get_global_device_mesh has failed after a block in a block was left through
\* an exception
C14_Witness ==
    /\ last_op.op = "get"
    /\ last_op.error = "AssertionError"
    /\ Len(registry_log) = 3
    /\ registry_log[1].op = "enter"
    /\ registry_log[2].op = "enter"
    /\ registry_log[3].op = "exit"

\* ---------------------------------------------------------------------------
\* C16: two DeviceMesh objects are equal if and only if they are the same
\* object or their meshes are element-wise equal (same shape, same values),
\* whatever their backends and coordinates are, and two equal objects have
\* the same hash.
C16_EqualityAndHash ==
    last_op.op = "eq" =>
        /\ last_op.result <=>
              /\ last_op.other.kind = "DeviceMesh"
              /\ \/ last_op.self.id = last_op.other.id
                 \/ /\ last_op.self.mesh.shape = last_op.other.mesh.shape
                    /\ last_op.self.mesh.data = last_op.other.mesh.data
        /\ last_op.result => last_op.hash_other = Some(last_op.hash_self)

\* ---------------------------------------------------------------------------
\* C22: a construction that fails with a validation error (device type not
\* recognized, backend not fit for the device type, mesh bigger than the
\* world, duplicate values, malformed dim_groups) has left the communication
\* layer as it was: it has issued no new_group call and has not called
\* init_process_group.
ValidationErrors ==
    {"device_type", "backend_not_supporting_cpu", "backend_not_supporting_cuda", "too_big",
     "duplicate", "dim_groups_not_list", "dim_groups_not_pg", "dim_groups_len",
     "dim_groups_len_absent"}
C22_FailedValidationHasNoSideEffect ==
    \A p \in Procs :
        (pc[p] = "error" /\ error[p] \in ValidationErrors)
            => new_group_calls[p] = <<>> /\ init_calls[p] = 0

\* ---------------------------------------------------------------------------
\* C21: when every process of the world constructs a DeviceMesh from the same
\* mesh without dim_groups, every new_group rendezvous is joined by all
\* processes and the constructor comes to its end on every process: from some
\* point on no process is in a new_group call and all have issued the same
\* calls.
Terminated(p) == pc[p] \in {"done", "error"}
C21_ConstructionTerminatesEverywhere ==
    <>[](\A p \in Procs : Terminated(p) /\ new_group_calls[p] = new_group_calls[0])

\* every process has come to the end of the constructor of a 2-d mesh after
\* four rendezvous, the last rank with a group for each dimension
C21_Witness ==
    /\ mesh.shape = <<2, 2>>
    /\ \A p \in Procs : Terminated(p) /\ Len(new_group_calls[p]) = 4
    /\ Len(dim_groups[WorldSize - 1]) = 2

\* ---------------------------------------------------------------------------
\* C23: on gloo with async_op=True, once the Work object that all_to_all
\* returned is complete, so that a wait on it returns, every one of the N
\* scatters of the call is complete and the buffers of both lists may be used
\* again.
C23_ReturnedWorkCoversAllScatters ==
    (/\ last_op.op = "all_to_all"
     /\ backend[last_op.caller] = "gloo"
     /\ last_op.async_op
     /\ last_op.work # NoneOpt
     /\ last_op.works[last_op.work[1]] = "done")
        => \A i \in 1 .. Len(last_op.works) : last_op.works[i] = "done"

====
